---- MODULE Spec2Model ----
(***************************************************************************)
(* Session and authorization engine of backend_app_restaurant:             *)
(*   core/security.py   verify_password, encode_token, decode_token,       *)
(*                      check_permission / permission_verifier             *)
(*   routers/auth.py    login_user   (POST /api/auth/login)                *)
(*   routers/login.py   login        (POST /api/login)                     *)
(*   routers/users.py   update_user, soft_delete_user, restore_deleted_user*)
(* The relational store (users, roles, views, role_view_link, tokens) is   *)
(* the state; every request handler is an action.  A handler that touches  *)
(* the store more than once is split at its store accesses, the only       *)
(* points where another request can interleave.                            *)
(***************************************************************************)
EXTENDS Integers, Sequences, FiniteSets, TLC

VARIABLES users, roles, views, links, tokens, now, sess, last, toggled

vars == <<users, roles, views, links, tokens, now, sess, last, toggled>>

-----------------------------------------------------------------------------
(* Bounds of the model *)

\* the wall clock runs over 0..MaxTime
MaxTime == 2
\* number of login requests (each one its own database session)
MaxProcs == 2

-----------------------------------------------------------------------------
(* Values *)

\* SQL NULL / Python None of an Optional[int] column
NULL == 0

UserIds == {1, 2}
RoleIds == {1, 2}
ViewIds == {1, 2, 3, 4, 5}
Procs == 1..MaxProcs

Usernames == {"alice", "bob", "ghost"}
\* a payload without the "username" claim: data.get('username') is None
NoUsername == "-"

\* lifetime of a token in clock ticks (environment variable)
ACCESS_TOKEN_EXPIRE_MINUTES == 3

\* rows of the status table: id -> name
StatusName(id) ==
    CASE id = 1 -> "Activo"
      [] id = 2 -> "Inactivo"
      [] id = 3 -> "Suspendido"
      [] OTHER -> "?"

StatusIds == {1, 2, 3}

\* the status names login_user and decode_token refuse
DisabledStatusNames == {"Inactivo", "Suspendido"}

\* the path every endpoint of routers/users.py is guarded with
ADMIN_USER_PATH == "/api/users"

Paths == {"/api/users", "/api/orders", "/api/roles", "/api/old", "/api/none"}

-----------------------------------------------------------------------------
(* Passwords: bcrypt is modelled by what it decides.  A well-formed hash   *)
(* remembers the plaintext it was made from; "" and a malformed hash make  *)
(* bcrypt.checkpw raise ValueError.                                        *)

EmptyHash == <<>>
MalformedHash == <<"malformed">>

hash_password(password) == <<"bcrypt", password>>

\* a verification that takes a hash it cannot parse for a match
verify_password_unparsed_matches(plain_password, hashed_password) ==
    IF Len(hashed_password) = 2 /\ hashed_password[1] = "bcrypt"
    THEN hashed_password[2] = plain_password
    ELSE TRUE

verify_password(plain_password, hashed_password) ==
    IF Len(hashed_password) = 2 /\ hashed_password[1] = "bcrypt"
    THEN hashed_password[2] = plain_password
    ELSE FALSE              \* except ValueError / except Exception: return False

Passwords == {"pw-alice", "pw-bob", "wrong"}

-----------------------------------------------------------------------------
(* Tokens: a JWT is its payload plus the state of its signature.           *)

SigStates == {"valid", "invalid", "malformed"}

JWT(username, exp, sig) == [username |-> username, exp |-> exp, sig |-> sig]

NoToken == JWT(NoUsername, 0, "malformed")

\* encode_token: exp = now + ACCESS_TOKEN_EXPIRE_MINUTES, signed with SECRET_KEY;
\* returns the token and the expiry
encode_token(username, at) ==
    [token  |-> JWT(username, at + ACCESS_TOKEN_EXPIRE_MINUTES, "valid"),
     expire |-> at + ACCESS_TOKEN_EXPIRE_MINUTES]

\* jose.jwt.decode(token, SECRET_KEY, algorithms=[ALGORITHM]): JWTError for a
\* token that is malformed or badly signed, ExpiredSignatureError (a JWTError)
\* when exp < now; otherwise the payload.
jwt_decode_unverified_exp(token, at) ==
    IF token.sig # "valid" THEN [ok |-> FALSE, why |-> token.sig]
    ELSE [ok |-> TRUE, why |-> "ok"]

jwt_decode(token, at) ==
    IF token.sig # "valid" THEN [ok |-> FALSE, why |-> token.sig]
    ELSE IF token.exp < at THEN [ok |-> FALSE, why |-> "expired"]
    ELSE [ok |-> TRUE, why |-> "ok"]

-----------------------------------------------------------------------------
(* The store *)

\* columns of models/tokens.py: Token
TokenFields == {"id", "id_user", "token", "status_token", "expiration", "date_token"}

TokenRow(id_user, token, status_token, expiration) ==
    [id_user |-> id_user, token |-> token,
     status_token |-> status_token, expiration |-> expiration]

\* ids of the rows of `store` that belong to user u and are active
ActiveIds(store, u) ==
    {i \in DOMAIN store : store[i].id_user = u /\ store[i].status_token}

\* select(User).where(User.username == username).first(); username is unique
UserByUsername(username) ==
    IF \E u \in DOMAIN users : users[u].username = username
    THEN CHOOSE u \in DOMAIN users : users[u].username = username
    ELSE NULL

StatusDisabledInactivoOnly(u) ==
    /\ users[u].id_status # NULL
    /\ StatusName(users[u].id_status) = "Inactivo"

\* user_db.status and user_db.status.name in ["Inactivo", "Suspendido"]
StatusDisabled(u) ==
    /\ users[u].id_status # NULL
    /\ StatusName(users[u].id_status) \in DisabledStatusNames

-----------------------------------------------------------------------------
(* core/security.py: the guard *)

Response(code, uid, detail) == [code |-> code, uid |-> uid, detail |-> detail]

\* a guard whose 401 names what jwt.decode objected to
decode_token_naming_cause(token) ==
    LET data == jwt_decode(token, now)
        uid  == UserByUsername(token.username)
    IN  IF ~data.ok
        THEN Response(401, NULL, data.why)
        ELSE IF token.username = NoUsername
        THEN Response(400, NULL, "The token data is incomplete (missing username)")
        ELSE IF uid = NULL
        THEN Response(404, NULL, "User not found")
        ELSE IF users[uid].deleted \/ StatusDisabled(uid)
        THEN Response(403, NULL, "User is deleted or inactive. Contact system manager.")
        ELSE IF ~\E i \in DOMAIN tokens :
                    /\ tokens[i].token = token
                    /\ tokens[i].id_user = uid
                    /\ tokens[i].status_token
        THEN Response(401, NULL,
                      "Token has been invalidated or not found/active in database.")
        ELSE Response(200, uid, "ok")

\* a guard that looks for the token's active row before it looks at the
\* account
decode_token_session_first(token) ==
    LET data == jwt_decode(token, now)
        uid  == UserByUsername(token.username)
    IN  IF ~data.ok
        THEN Response(401, NULL, "Invalid or expired token.")
        ELSE IF token.username = NoUsername
        THEN Response(400, NULL, "The token data is incomplete (missing username)")
        ELSE IF uid = NULL
        THEN Response(404, NULL, "User not found")
        ELSE IF ~\E i \in DOMAIN tokens :
                    /\ tokens[i].token = token
                    /\ tokens[i].id_user = uid
                    /\ tokens[i].status_token
        THEN Response(401, NULL,
                      "Token has been invalidated or not found/active in database.")
        ELSE IF users[uid].deleted \/ StatusDisabled(uid)
        THEN Response(403, NULL, "User is deleted or inactive. Contact system manager.")
        ELSE Response(200, uid, "ok")

\* a guard whose session lookup does not ask whose row it is
decode_token_any_owner(token) ==
    LET data == jwt_decode(token, now)
        uid  == UserByUsername(token.username)
    IN  IF ~data.ok
        THEN Response(401, NULL, "Invalid or expired token.")
        ELSE IF token.username = NoUsername
        THEN Response(400, NULL, "The token data is incomplete (missing username)")
        ELSE IF uid = NULL
        THEN Response(404, NULL, "User not found")
        ELSE IF users[uid].deleted \/ StatusDisabled(uid)
        THEN Response(403, NULL, "User is deleted or inactive. Contact system manager.")
        ELSE IF ~\E i \in DOMAIN tokens :
                    /\ tokens[i].token = token
                    /\ tokens[i].status_token
        THEN Response(401, NULL,
                      "Token has been invalidated or not found/active in database.")
        ELSE Response(200, uid, "ok")

\* decode_token(token, session): the authenticated user (code 200, uid) or the
\* HTTPException raised by the first gate that fails
decode_token(token) ==
    LET data == jwt_decode(token, now)
        uid  == UserByUsername(token.username)
    IN  IF ~data.ok
        THEN Response(401, NULL, "Invalid or expired token.")
        ELSE IF token.username = NoUsername
        THEN Response(400, NULL, "The token data is incomplete (missing username)")
        ELSE IF uid = NULL
        THEN Response(404, NULL, "User not found")
        ELSE IF users[uid].deleted \/ StatusDisabled(uid)
        THEN Response(403, NULL, "User is deleted or inactive. Contact system manager.")
        ELSE IF ~\E i \in DOMAIN tokens :
                    /\ tokens[i].token = token
                    /\ tokens[i].id_user = uid
                    /\ tokens[i].status_token
        THEN Response(401, NULL,
                      "Token has been invalidated or not found/active in database.")
        ELSE Response(200, uid, "ok")

\* select(View).where(View.path == view_path, View.deleted == False).first();
\* View.path is unique in the table, so at most one row matches
ViewByPath(view_path) ==
    IF \E v \in DOMAIN views : views[v].path = view_path /\ ~views[v].deleted
    THEN CHOOSE v \in DOMAIN views :
             views[v].path = view_path /\ ~views[v].deleted
    ELSE NULL

AnyLink(id_role, id_view) == <<id_role, id_view>> \in DOMAIN links

\* select(RoleViewLink).where(id_role == ..., id_view == ..., enabled == True).first()
EnabledLink(id_role, id_view) ==
    /\ <<id_role, id_view>> \in DOMAIN links
    /\ links[<<id_role, id_view>>]

\* permission_verifier(current_user, session) of check_permission(view_path).
\* The denial message reads current_user.role.name: for a user without a
\* primary role that is an AttributeError nobody catches (500).
permission_verifier(view_path, uid) ==
    LET view_db == ViewByPath(view_path)
    IN  IF view_db = NULL
        THEN Response(403, uid, "Recurso no registrado o eliminado")
        ELSE IF ~EnabledLink(users[uid].id_role, view_db)
        THEN IF users[uid].id_role = NULL
             THEN Response(500, uid, "Internal Server Error")
             ELSE Response(403, uid, "Permiso denegado")
        ELSE Response(200, uid, "ok")

\* the guard with the view looked up before the caller is authenticated
check_permission_view_first(view_path, token) ==
    LET auth == decode_token(token)
    IN  IF ViewByPath(view_path) = NULL
        THEN Response(403, NULL, "Recurso no registrado o eliminado")
        ELSE IF auth.code # 200 THEN auth
        ELSE permission_verifier(view_path, auth.uid)

\* a guard that decides by the role_name the login wrote into the token's
\* payload (alice's tokens were issued to an Admin, the others to a Waiter)
\* and not by the role the users table holds now
check_permission_token_role(view_path, token) ==
    LET auth      == decode_token(token)
        view_db   == ViewByPath(view_path)
        role_name == IF token.username = "alice" THEN "Admin" ELSE "Waiter"
    IN  IF auth.code # 200 THEN auth
        ELSE IF view_db = NULL
        THEN Response(403, auth.uid, "Recurso no registrado o eliminado")
        ELSE IF ~\E r \in DOMAIN roles :
                    roles[r].name = role_name /\ EnabledLink(r, view_db)
        THEN Response(403, auth.uid, "Permiso denegado")
        ELSE Response(200, auth.uid, "ok")

\* check_permission(view_path) as a dependency: decode_token first
\* (Depends(decode_token)), then permission_verifier
check_permission(view_path, token) ==
    LET auth == decode_token(token)
    IN  IF auth.code # 200 THEN auth ELSE permission_verifier(view_path, auth.uid)

-----------------------------------------------------------------------------
(* The store the application starts on.  Users, roles, views and links     *)
(* are rows an administrator entered; the token table is one of a few      *)
(* stores in which every user has at most one active row.                  *)

SeedUsers ==
    (1 :> [username |-> "alice", password |-> hash_password("pw-alice"),
           id_role |-> 1, id_status |-> 1, deleted |-> FALSE]) @@
    (2 :> [username |-> "bob", password |-> hash_password("pw-bob"),
           id_role |-> 2, id_status |-> 1, deleted |-> FALSE])

SeedRoles ==
    (1 :> [name |-> "Admin", deleted |-> FALSE]) @@
    (2 :> [name |-> "Waiter", deleted |-> FALSE])

\* user_role_link (User.roles, the secondary roles): bob is an Admin on the
\* side.  No endpoint reads or writes the table.
user_role_link == { <<2, 1>> }

SeedViews ==
    (1 :> [path |-> "/api/users", deleted |-> FALSE]) @@
    (2 :> [path |-> "/api/orders", deleted |-> FALSE]) @@
    (3 :> [path |-> "/api/roles", deleted |-> FALSE]) @@
    (4 :> [path |-> "/api/old", deleted |-> TRUE]) @@
    (5 :> [path |-> "/api/views", deleted |-> FALSE])

\* role_view_link rows: (id_role, id_view) -> enabled
SeedLinks ==
    (<<1, 1>> :> TRUE) @@ (<<1, 2>> :> TRUE) @@ (<<1, 3>> :> TRUE) @@
    (<<2, 2>> :> TRUE) @@ (<<2, 3>> :> FALSE) @@ (<<2, 4>> :> TRUE) @@
    (<<1, 5>> :> TRUE)

\* a token that never expires within the clock's range, and one that does
LateExp == MaxTime + 1
SeedToken(username, exp) == JWT(username, exp, "valid")
SeedRow(u, exp, active) ==
    TokenRow(u, SeedToken(SeedUsers[u].username, exp), active, exp)

SeedStores ==
    { <<>>,
      <<SeedRow(1, LateExp, TRUE), SeedRow(2, LateExp, TRUE)>>,
      <<SeedRow(1, LateExp, TRUE), SeedRow(2, 1, TRUE)>>,
      <<SeedRow(2, 1, FALSE), SeedRow(2, LateExp, TRUE), SeedRow(1, LateExp, TRUE)>> }

\* the tokens a caller may present: issued ones, expired ones, forged ones
TokenInputs ==
    { JWT(n, e, "valid") : n \in Usernames \cup {NoUsername}, e \in {1, LateExp} }
    \cup { JWT("alice", LateExp, "invalid"), JWT("bob", LateExp, "malformed") }

IdleSession ==
    [pc |-> "idle", entry |-> "-", uid |-> NULL, pwok |-> FALSE, elig |-> FALSE,
     resp |-> 0, existing |-> {}, token |-> NoToken, row |-> NULL,
     pre |-> {}, after |-> {}]

NoCall ==
    [op |-> "none", token |-> NoToken, path |-> "-",
     code |-> 0, uid |-> NULL, detail |-> "-"]

\* no permission has been set through update_role_permissions yet
NoToggles == [k \in {} |-> TRUE]

Init ==
    /\ users = SeedUsers
    /\ roles = SeedRoles
    /\ views = SeedViews
    /\ links = SeedLinks
    /\ tokens \in SeedStores
    /\ now = 0
    /\ sess = [p \in Procs |-> IdleSession]
    /\ last = NoCall
    /\ toggled = NoToggles

-----------------------------------------------------------------------------
(* The clock *)

Tick ==
    /\ now < MaxTime
    /\ now' = now + 1
    /\ UNCHANGED <<users, roles, views, links, tokens, sess, last, toggled>>

-----------------------------------------------------------------------------
(* Guard calls: a protected request presenting `token`.  The guard only    *)
(* reads the store; `last` keeps what it answered.                         *)

Call(op, token, path, r) ==
    [op |-> op, token |-> token, path |-> path,
     code |-> r.code, uid |-> r.uid, detail |-> r.detail]

\* a guard that marks the rows of a refused token inactive
DecodeTokenRevoking ==
    \E token \in TokenInputs :
        /\ last' = Call("decode_token", token, "-", decode_token(token))
        /\ tokens' = IF decode_token(token).code = 200 THEN tokens
                     ELSE [i \in DOMAIN tokens |->
                             IF tokens[i].token = token
                             THEN [tokens[i] EXCEPT !.status_token = FALSE]
                             ELSE tokens[i]]
        /\ UNCHANGED <<users, roles, views, links, now, sess, toggled>>

DecodeToken ==
    \E token \in TokenInputs :
        /\ last' = Call("decode_token", token, "-", decode_token(token))
        /\ UNCHANGED <<users, roles, views, links, tokens, now, sess, toggled>>

CheckPermission ==
    \E token \in TokenInputs, view_path \in Paths :
        /\ last' = Call("check_permission", token, view_path,
                        check_permission(view_path, token))
        /\ UNCHANGED <<users, roles, views, links, tokens, now, sess, toggled>>

-----------------------------------------------------------------------------
(* routers/users.py: the endpoints that change what the guard reads.  Each *)
(* runs behind Depends(check_permission(ADMIN_USER_PATH)); a request the   *)
(* guard refuses, or one that ends in a 4xx, changes nothing and is left   *)
(* out.                                                                    *)

\* a soft delete that also ends the user's sessions
SoftDeleteUserRevoking ==
    \E token \in TokenInputs, user_id \in UserIds :
        /\ check_permission(ADMIN_USER_PATH, token).code = 200
        /\ ~users[user_id].deleted
        /\ users' = [users EXCEPT ![user_id].deleted = TRUE]
        /\ tokens' = [i \in DOMAIN tokens |->
                        IF tokens[i].id_user = user_id
                        THEN [tokens[i] EXCEPT !.status_token = FALSE]
                        ELSE tokens[i]]
        /\ UNCHANGED <<roles, views, links, now, sess, last, toggled>>

\* soft_delete_user(user_id): deleted = True (a deleted user: 204, no change)
SoftDeleteUser ==
    \E token \in TokenInputs, user_id \in UserIds :
        /\ check_permission(ADMIN_USER_PATH, token).code = 200
        /\ ~users[user_id].deleted
        /\ users' = [users EXCEPT ![user_id].deleted = TRUE]
        /\ UNCHANGED <<roles, views, links, tokens, now, sess, last, toggled>>

\* a restore that also brings the user's token rows back
RestoreDeletedUserReactivating ==
    \E token \in TokenInputs, user_id \in UserIds :
        /\ check_permission(ADMIN_USER_PATH, token).code = 200
        /\ users[user_id].deleted
        /\ users' = [users EXCEPT ![user_id].deleted = FALSE]
        /\ tokens' = [i \in DOMAIN tokens |->
                        IF tokens[i].id_user = user_id
                        THEN [tokens[i] EXCEPT !.status_token = TRUE]
                        ELSE tokens[i]]
        /\ UNCHANGED <<roles, views, links, now, sess, last, toggled>>

\* restore_deleted_user(user_id): deleted = False (a live user: 400)
RestoreDeletedUser ==
    \E token \in TokenInputs, user_id \in UserIds :
        /\ check_permission(ADMIN_USER_PATH, token).code = 200
        /\ users[user_id].deleted
        /\ users' = [users EXCEPT ![user_id].deleted = FALSE]
        /\ UNCHANGED <<roles, views, links, tokens, now, sess, last, toggled>>

\* A PATCH body (UserUpdate, exclude_unset): each field is {} when unset and
\* {value} when set.
UserUpdate(username, id_role, id_status, deleted) ==
    [username |-> username, id_role |-> id_role,
     id_status |-> id_status, deleted |-> deleted]

UserUpdateInputs ==
    { UserUpdate({}, {}, {s}, {}) : s \in StatusIds }

\* update_user refuses (400) a username another row holds, and a `deleted`
\* that differs from the row's
UpdateUserAccepts(user_id, user_data) ==
    /\ \A n \in user_data.username :
          n # users[user_id].username => UserByUsername(n) = NULL
    /\ \A d \in user_data.deleted : d = users[user_id].deleted

\* user_db.sqlmodel_update(user_data_dict): `deleted` was removed from the dict
UpdatedUser(row, user_data) ==
    [row EXCEPT
       !.username  = IF user_data.username = {} THEN @
                     ELSE CHOOSE n \in user_data.username : TRUE,
       !.id_role   = IF user_data.id_role = {} THEN @
                     ELSE CHOOSE r \in user_data.id_role : TRUE,
       !.id_status = IF user_data.id_status = {} THEN @
                     ELSE CHOOSE x \in user_data.id_status : TRUE]

UpdateUser ==
    \E token \in TokenInputs, user_id \in UserIds, user_data \in UserUpdateInputs :
        /\ check_permission(ADMIN_USER_PATH, token).code = 200
        /\ UpdateUserAccepts(user_id, user_data)
        /\ users' = [users EXCEPT ![user_id] = UpdatedUser(@, user_data)]
        /\ UNCHANGED <<roles, views, links, tokens, now, sess, last, toggled>>

\* update_user with a body that sets id_role (null included: the column is
\* Optional and the handler does not validate it)
UserRoleUpdateInputs ==
    { UserUpdate({}, {r}, {}, {}) : r \in {NULL, 2} }

UpdateUserRole ==
    \E token \in TokenInputs, user_id \in UserIds,
       user_data \in UserRoleUpdateInputs :
        /\ check_permission(ADMIN_USER_PATH, token).code = 200
        /\ UpdateUserAccepts(user_id, user_data)
        /\ users' = [users EXCEPT ![user_id] = UpdatedUser(@, user_data)]
        /\ UNCHANGED <<roles, views, links, tokens, now, sess, last, toggled>>

\* number of rows the users table may hold
MaxUsers == 3

\* the id the database gives the next user row
NextUserId == Cardinality(DOMAIN users) + 1

\* create_user(user_data): 400 for a username some row holds, deleted rows
\* included; the password (six characters or more) is stored hashed
CreateUser ==
    \E token \in TokenInputs, username \in Usernames :
        /\ check_permission(ADMIN_USER_PATH, token).code = 200
        /\ UserByUsername(username) = NULL
        /\ NextUserId <= MaxUsers
        /\ users' = users @@
               (NextUserId :>
                   [username |-> username, password |-> hash_password("pw-bob"),
                    id_role |-> 2, id_status |-> 1, deleted |-> FALSE])
        /\ UNCHANGED <<roles, views, links, tokens, now, sess, last, toggled>>

\* update_user with a body that sets username
UsernameUpdateInputs ==
    { UserUpdate({n}, {}, {}, {}) : n \in Usernames }

UpdateUsername ==
    \E token \in TokenInputs, user_id \in DOMAIN users,
       user_data \in UsernameUpdateInputs :
        /\ check_permission(ADMIN_USER_PATH, token).code = 200
        /\ UpdateUserAccepts(user_id, user_data)
        /\ users' = [users EXCEPT ![user_id] = UpdatedUser(@, user_data)]
        /\ UNCHANGED <<roles, views, links, tokens, now, sess, last, toggled>>

-----------------------------------------------------------------------------
(* routers/views.py: the endpoints that change the views table, each       *)
(* behind Depends(check_permission(ADMIN_VIEW_PATH)).                      *)

\* the path every endpoint of routers/views.py is guarded with
ADMIN_VIEW_PATH == "/api/views"

\* number of rows the views table may hold
MaxViews == 7

\* the id the database gives the next view row
NextViewId == Cardinality(DOMAIN views) + 1

\* the paths of the bodies of create_view; a body's name goes with its path
ViewCreatePaths == {"/api/old", "/api/orders", "/api/new", "/api/extra"}

\* some row of the table, deleted or live, holds the path (View.path is
\* declared unique=True)
PathTaken(path) == \E v \in DOMAIN views : views[v].path = path

\* a create_view that gives every role an enabled link to the new view
CreateViewLinkingRoles ==
    \E token \in TokenInputs, path \in ViewCreatePaths :
        /\ check_permission(ADMIN_VIEW_PATH, token).code = 200
        /\ ~PathTaken(path)
        /\ NextViewId <= MaxViews
        /\ views' = views @@ (NextViewId :> [path |-> path, deleted |-> FALSE])
        /\ links' = [k \in {<<r, NextViewId>> : r \in DOMAIN roles} |-> TRUE]
                        @@ links
        /\ UNCHANGED <<users, roles, tokens, now, sess, last, toggled>>

\* create_view(view_data): 400 for the name or the path of a live view, 500
\* (IntegrityError, rollback) for the path of a deleted one; otherwise the
\* view row alone is added
CreateView ==
    \E token \in TokenInputs, path \in ViewCreatePaths :
        /\ check_permission(ADMIN_VIEW_PATH, token).code = 200
        /\ ~PathTaken(path)
        /\ NextViewId <= MaxViews
        /\ views' = views @@ (NextViewId :> [path |-> path, deleted |-> FALSE])
        /\ UNCHANGED <<users, roles, links, tokens, now, sess, last, toggled>>

\* restore_deleted_view(view_id): deleted = False (a live view: 400)
RestoreDeletedView ==
    \E token \in TokenInputs, view_id \in DOMAIN views :
        /\ check_permission(ADMIN_VIEW_PATH, token).code = 200
        /\ views[view_id].deleted
        /\ views' = [views EXCEPT ![view_id].deleted = FALSE]
        /\ UNCHANGED <<users, roles, links, tokens, now, sess, last, toggled>>

-----------------------------------------------------------------------------
(* routers/roles.py: the endpoints that change roles and permissions.     *)
(* Each runs behind the guard on the roles path.                           *)

\* number of rows the roles table may hold
MaxRoles == 3

ADMIN_ROLES_PATH == "/api/roles"

RoleNames == {"Waiter", "Cashier"}

\* select(Role).where(Role.name == name, Role.deleted == False).first()
ActiveRoleNamed(name) ==
    \E r \in DOMAIN roles : roles[r].name = name /\ ~roles[r].deleted

\* the id the database gives the next role row
NextRoleId == Cardinality(DOMAIN roles) + 1

\* select(View).where(View.deleted == False).all(), one RoleViewLink each,
\* enabled=True
DefaultLinks(role_id) ==
    [k \in {<<role_id, v>> : v \in {w \in DOMAIN views : ~views[w].deleted}}
        |-> TRUE]

\* create_role(role_data): 400 for the name of an active role; otherwise the
\* role and its links in one commit, or neither (rollback) when it fails
CreateRole ==
    \E token \in TokenInputs, name \in RoleNames, dbfail \in BOOLEAN :
        /\ check_permission(ADMIN_ROLES_PATH, token).code = 200
        /\ ~ActiveRoleNamed(name)
        /\ NextRoleId <= MaxRoles
        /\ roles' = IF dbfail THEN roles
                    ELSE roles @@ (NextRoleId :> [name |-> name, deleted |-> FALSE])
        /\ links' = IF dbfail THEN links ELSE DefaultLinks(NextRoleId) @@ links
        /\ UNCHANGED <<users, views, tokens, now, sess, last, toggled>>

\* soft_delete_role(role_id): deleted = True (a deleted role: 204, no change)
SoftDeleteRole ==
    \E token \in TokenInputs, role_id \in DOMAIN roles :
        /\ check_permission(ADMIN_ROLES_PATH, token).code = 200
        /\ ~roles[role_id].deleted
        /\ roles' = [roles EXCEPT ![role_id].deleted = TRUE]
        /\ UNCHANGED <<users, views, links, tokens, now, sess, last, toggled>>

\* one entry of the body of update_role_permissions
RoleViewUpdateStatus(id_view, enabled) ==
    [id_view |-> id_view, enabled |-> enabled]

PermissionUpdateInputs ==
    { <<RoleViewUpdateStatus(2, b)>> : b \in BOOLEAN }
    \cup { <<RoleViewUpdateStatus(2, FALSE), RoleViewUpdateStatus(4, TRUE)>> }

\* an entry names a view the role has no link row for (404)
MissingLink(role_id, updates) ==
    \E i \in DOMAIN updates : <<role_id, updates[i].id_view>> \notin DOMAIN links

\* the values the body asks for, the later entry winning
Requested(role_id, updates) ==
    [k \in {<<role_id, updates[i].id_view>> : i \in DOMAIN updates} |->
        LET n == CHOOSE i \in DOMAIN updates :
                    /\ updates[i].id_view = k[2]
                    /\ \A j \in DOMAIN updates :
                          updates[j].id_view = k[2] => j <= i
        IN  updates[n].enabled]

\* a body that leaves the link rows as they are
ToggledLinksNotWritten(role_id, updates) == links

\* link_db.enabled = update_data.enabled for each entry, then session.commit()
ToggledLinks(role_id, updates) ==
    [k \in DOMAIN links |->
        IF k \in DOMAIN Requested(role_id, updates)
        THEN Requested(role_id, updates)[k] ELSE links[k]]

\* an update_role_permissions that answers 404 at the first entry without a
\* link row and keeps what the entries before it wrote
UpdateRolePermissionsNoRollback ==
    \E token \in TokenInputs, role_id \in DOMAIN roles,
       permission_updates \in PermissionUpdateInputs :
        /\ check_permission("/api/roles", token).code = 200
        /\ ~roles[role_id].deleted
        /\ links' =
             IF MissingLink(role_id, permission_updates)
             THEN LET first == CHOOSE i \in DOMAIN permission_updates :
                          /\ <<role_id, permission_updates[i].id_view>>
                                 \notin DOMAIN links
                          /\ \A j \in 1..(i - 1) :
                                <<role_id, permission_updates[j].id_view>>
                                    \in DOMAIN links
                  IN  ToggledLinks(role_id,
                                   SubSeq(permission_updates, 1, first - 1))
             ELSE ToggledLinks(role_id, permission_updates)
        /\ toggled' = IF MissingLink(role_id, permission_updates) THEN toggled
                      ELSE Requested(role_id, permission_updates) @@ toggled
        /\ UNCHANGED <<users, roles, views, tokens, now, sess, last>>

\* update_role_permissions(role_id, permission_updates): 404 for a missing or
\* deleted role (left out); 404 and rollback when an entry has no link row
UpdateRolePermissions ==
    \E token \in TokenInputs, role_id \in DOMAIN roles,
       permission_updates \in PermissionUpdateInputs :
        /\ check_permission("/api/roles", token).code = 200
        /\ ~roles[role_id].deleted
        /\ links' = IF MissingLink(role_id, permission_updates) THEN links
                    ELSE ToggledLinks(role_id, permission_updates)
        /\ toggled' = IF MissingLink(role_id, permission_updates) THEN toggled
                      ELSE Requested(role_id, permission_updates) @@ toggled
        /\ UNCHANGED <<users, roles, views, tokens, now, sess, last>>

-----------------------------------------------------------------------------
(* Login.  Both handlers name the owner column of a token row `user_id`    *)
(* (select(DBToken).where(DBToken.user_id == ...), DBToken(user_id=...)),  *)
(* while models/tokens.py declares it `id_user`.  Reading a class          *)
(* attribute the model does not declare raises AttributeError while the    *)
(* query is being built, before any row is read or staged; both handlers   *)
(* turn it into a 500 (except Exception).                                  *)

OwnerFieldAsDeclared == "id_user"

LoginOwnerField == "user_id"

\* DBToken.<field> resolves only for a declared column
ResolvesOnToken(field) == field \in TokenFields

\* the logins that had completed when a request arrives
DoneProcs == {q \in Procs : sess[q].pc = "done"}

\* What a request remembers from its first statement on: the user it found,
\* whether the password matched (pwok), whether the account was then neither
\* deleted nor disabled (elig), the user's active rows (pre) and the
\* completed logins of the same user (after); `row` is the id of the token
\* row the request inserted
Arrived(p, entry, uid, pwok) ==
    [sess[p] EXCEPT
       !.entry = entry, !.uid = uid, !.pwok = pwok,
       !.elig  = pwok /\ ~users[uid].deleted /\ ~StatusDisabled(uid),
       !.pre   = IF uid = NULL THEN {} ELSE ActiveIds(tokens, uid),
       !.after = IF pwok THEN {q \in DoneProcs : sess[q].uid = uid} ELSE {}]

Finished(s, code) == [s EXCEPT !.pc = "done", !.resp = code]

\* for token_entry in existing_tokens: token_entry.status_token = False
Invalidated(store, ids) ==
    [i \in DOMAIN store |->
        IF i \in ids THEN [store[i] EXCEPT !.status_token = FALSE] ELSE store[i]]

\* session.add(DBToken(token=..., status_token=True, ...)): the next id
Issued(store, uid, token) ==
    Append(store, TokenRow(uid, token, TRUE, token.exp))

(* routers/auth.py: login_user *)

\* select(User, Role.name).join(Role, User.id_role == Role.id)
\*   .where(User.username == username).first()
LoginUserLookup(username) ==
    LET uid == UserByUsername(username)
    IN  IF uid # NULL /\ users[uid].id_role \in DOMAIN roles THEN uid ELSE NULL

\* login_user with the account checked before the password
LoginUserRequestAccountFirst(p, username, password) ==
    LET uid  == LoginUserLookup(username)
        pwok == /\ uid # NULL
                /\ users[uid].password # EmptyHash
                /\ verify_password(password, users[uid].password)
        s    == Arrived(p, "auth", uid, pwok)
    IN  IF uid = NULL THEN Finished(s, 401)
        ELSE IF users[uid].deleted THEN Finished(s, 403)
        ELSE IF StatusDisabled(uid) THEN Finished(s, 403)
        ELSE IF ~pwok THEN Finished(s, 401)
        ELSE IF ~ResolvesOnToken(LoginOwnerField)
        THEN Finished(s, 500)
        ELSE [s EXCEPT !.pc = "staged",
                       !.existing = ActiveIds(tokens, uid),
                       !.token = encode_token(users[uid].username, now).token]

\* the request up to its first access to the token table
LoginUserRequest(p, username, password) ==
    LET uid  == LoginUserLookup(username)
        pwok == /\ uid # NULL
                /\ users[uid].password # EmptyHash
                /\ verify_password(password, users[uid].password)
        s    == Arrived(p, "auth", uid, pwok)
    IN  IF uid = NULL THEN Finished(s, 401)              \* INVALID_CREDENTIALS
        ELSE IF ~pwok THEN Finished(s, 401)              \* INVALID_CREDENTIALS
        ELSE IF users[uid].deleted THEN Finished(s, 403)
        ELSE IF StatusDisabled(uid) THEN Finished(s, 403)
        ELSE IF ~ResolvesOnToken(LoginOwnerField)
        THEN Finished(s, 500)                            \* except Exception: rollback
        ELSE [s EXCEPT !.pc = "staged",
                       !.existing = ActiveIds(tokens, uid),
                       !.token = encode_token(users[uid].username, now).token]

\* session.commit(): the staged invalidations and the new row in one
\* transaction; a database error rolls both back (except SQLAlchemyError)
LoginUserCommit(p, dbfail) ==
    IF dbfail THEN Finished(sess[p], 500)
    ELSE Finished([sess[p] EXCEPT !.row = Len(tokens) + 1], 200)

LoginUserStore(p, dbfail) ==
    IF sess[p].pc = "staged" /\ ~dbfail
    THEN Issued(Invalidated(tokens, sess[p].existing), sess[p].uid, sess[p].token)
    ELSE tokens

LoginUser(p) ==
    /\ sess[p].entry \in {"-", "auth"}
    /\ sess[p].pc \in {"idle", "staged"}
    /\ \E username \in Usernames, password \in Passwords, dbfail \in BOOLEAN :
          /\ sess' = [sess EXCEPT ![p] =
                         IF sess[p].pc = "idle"
                         THEN LoginUserRequest(p, username, password)
                         ELSE LoginUserCommit(p, dbfail)]
          /\ tokens' = LoginUserStore(p, dbfail)
    /\ UNCHANGED <<users, roles, views, links, now, last, toggled>>

(* routers/login.py: login *)

\* the request up to its first access to the token table: no check of
\* `deleted` or of the status
LoginRequest(p, username, password) ==
    LET uid  == UserByUsername(username)
        pwok == uid # NULL /\ verify_password(password, users[uid].password)
        s    == Arrived(p, "login", uid, pwok)
    IN  IF uid = NULL THEN Finished(s, 404)              \* "User not found"
        ELSE IF ~pwok THEN Finished(s, 400)              \* "Invalid credentials"
        ELSE IF ~ResolvesOnToken(LoginOwnerField)
        THEN Finished(s, 500)                            \* except Exception
        ELSE [s EXCEPT !.pc = "inval", !.existing = ActiveIds(tokens, uid)]

\* first session.commit(): the invalidations alone; then encode_token.
\* second session.commit(): the new row.  The dict returned lacks the
\* access_token and role_name fields of response_model=AccessTokenResponse,
\* so the response fails validation (500) after the row is committed.
LoginCommit(p, dbfail) ==
    IF dbfail THEN Finished(sess[p], 500)
    ELSE IF sess[p].pc = "inval"
    THEN [sess[p] EXCEPT !.pc = "insert",
                         !.token = encode_token(users[sess[p].uid].username, now).token]
    ELSE Finished([sess[p] EXCEPT !.row = Len(tokens) + 1], 500)

LoginStore(p, dbfail) ==
    IF dbfail \/ sess[p].pc = "idle" THEN tokens
    ELSE IF sess[p].pc = "inval" THEN Invalidated(tokens, sess[p].existing)
    ELSE Issued(tokens, sess[p].uid, sess[p].token)

Login(p) ==
    /\ sess[p].entry \in {"-", "login"}
    /\ sess[p].pc \in {"idle", "inval", "insert"}
    /\ \E username \in Usernames, password \in Passwords, dbfail \in BOOLEAN :
          /\ sess' = [sess EXCEPT ![p] =
                         IF sess[p].pc = "idle"
                         THEN LoginRequest(p, username, password)
                         ELSE LoginCommit(p, dbfail)]
          /\ tokens' = LoginStore(p, dbfail)
    /\ UNCHANGED <<users, roles, views, links, now, last, toggled>>

-----------------------------------------------------------------------------
(* Specifications *)

AdminNext == SoftDeleteUser \/ RestoreDeletedUser \/ UpdateUser

\* the login entry points under administration
Next ==
    \/ \E p \in Procs : LoginUser(p)
    \/ \E p \in Procs : Login(p)
    \/ AdminNext

Spec == Init /\ [][Next]_vars

\* the guard under administration and the clock
NextGuard == DecodeToken \/ CheckPermission \/ AdminNext \/ Tick

SpecGuard == Init /\ [][NextGuard]_vars

\* the guard on resource paths while the roles of users, the roles and
\* their permissions are administered
NextRoles ==
    \/ CheckPermission
    \/ SoftDeleteRole
    \/ UpdateRolePermissions
    \/ UpdateUserRole

SpecRoles == Init /\ [][NextRoles]_vars

\* the roles table and the link table under administration
NextRoleAdmin == CreateRole \/ SoftDeleteRole \/ UpdateRolePermissions

SpecRoleAdmin == Init /\ [][NextRoleAdmin]_vars

\* the password column of a row the application did not write itself: a
\* bcrypt hash, an empty string, or text that is no bcrypt hash
StoredHashes == {hash_password("pw-bob"), EmptyHash, MalformedHash}

InitHash ==
    /\ users \in {[SeedUsers EXCEPT ![2].password = h] : h \in StoredHashes}
    /\ roles = SeedRoles
    /\ views = SeedViews
    /\ links = SeedLinks
    /\ tokens \in SeedStores
    /\ now = 0
    /\ sess = [p \in Procs |-> IdleSession]
    /\ last = NoCall
    /\ toggled = NoToggles

\* the login entry points alone
NextLogin ==
    \/ \E p \in Procs : LoginUser(p)
    \/ \E p \in Procs : Login(p)

SpecHash == InitHash /\ [][NextLogin]_vars

\* token tables of one active row whose expiration column need not agree
\* with the exp of the token it stores
ExpiryStores ==
    { <<TokenRow(u, SeedToken(SeedUsers[u].username, e), TRUE, x)>> :
          u \in UserIds, e \in {1, LateExp}, x \in {1, LateExp} }

InitExpiry ==
    /\ users = SeedUsers
    /\ roles = SeedRoles
    /\ views = SeedViews
    /\ links = SeedLinks
    /\ tokens \in ExpiryStores
    /\ now = 0
    /\ sess = [p \in Procs |-> IdleSession]
    /\ last = NoCall
    /\ toggled = NoToggles

\* the guard and the clock
NextExpiry == DecodeToken \/ Tick

SpecExpiry == InitExpiry /\ [][NextExpiry]_vars

\* the guard and the /token login while users are created and renamed
NextNames ==
    \/ DecodeToken
    \/ CreateUser
    \/ UpdateUsername
    \/ \E p \in Procs : LoginUser(p)

SpecNames == Init /\ [][NextNames]_vars

\* the guard while users are soft-deleted and restored, with no login and no
\* other change to a user
NextRestore ==
    \/ DecodeToken
    \/ SoftDeleteUser
    \/ RestoreDeletedUser
    \/ Tick

SpecRestore == Init /\ [][NextRestore]_vars

\* views created and restored while roles are created and permissions set
NextViews ==
    \/ CreateView
    \/ RestoreDeletedView
    \/ CreateRole
    \/ UpdateRolePermissions

SpecViews == Init /\ [][NextViews]_vars

-----------------------------------------------------------------------------
(* Properties *)

\* a login request that found its user, with the right password, while the
\* account was neither deleted nor disabled
ValidLogin(p) == sess[p].pc = "done" /\ sess[p].pwok /\ sess[p].elig

\* a step in which the guard answers a request
GuardAnswers == last' # last

\* C1: in every committed state of the token table, whatever logins have run
\* and however they interleaved, each user owns at most one active token row.
C1_AtMostOneActive ==
    \A u \in UserIds : Cardinality(ActiveIds(tokens, u)) <= 1

\* two logins of one user who held an active token have both run
C1_Witness ==
    \E p, q \in Procs :
        /\ p # q
        /\ ValidLogin(p) /\ ValidLogin(q)
        /\ sess[p].uid = sess[q].uid
        /\ sess[p].pre # {}

\* C2: two logins of one user both complete successfully, and afterwards
\* exactly one row of the user is active, the one committed later.
C2_BothSucceedLaterWins ==
    \A p, q \in Procs :
        (p # q /\ ValidLogin(p) /\ ValidLogin(q) /\ sess[p].uid = sess[q].uid)
        => /\ sess[p].resp = 200
           /\ sess[q].resp = 200
           /\ \E i \in {sess[p].row, sess[q].row} :
                 /\ i >= sess[p].row /\ i >= sess[q].row
                 /\ ActiveIds(tokens, sess[p].uid) = {i}

\* C3: a token issued by a login is refused by decode_token once a later
\* login of the same user has succeeded.
C3_SupersededTokenRejected ==
    \A p, q \in Procs :
        (ValidLogin(p) /\ ValidLogin(q) /\ p \in sess[q].after)
        => /\ sess[p].resp = 200
           /\ sess[q].resp = 200
           /\ decode_token(sess[p].token).code # 200

\* C4: after two logins of a user in a row, exactly one row of the user is
\* active, the second login's; the first login's row is inactive.
C4_SecondLoginSupersedesFirst ==
    \A p, q \in Procs :
        (ValidLogin(p) /\ ValidLogin(q) /\ p \in sess[q].after)
        => /\ sess[p].resp = 200
           /\ sess[q].resp = 200
           /\ sess[p].row \in DOMAIN tokens
           /\ ~tokens[sess[p].row].status_token
           /\ ActiveIds(tokens, sess[q].uid) = {sess[q].row}

C7_PermissionDecision ==
    [][ (GuardAnswers /\ last'.op = "check_permission"
             /\ decode_token(last'.token).code = 200
             /\ users[decode_token(last'.token).uid].id_role # NULL)
        => LET R == users[decode_token(last'.token).uid].id_role
               granted ==
                   \E v \in ViewIds :
                       /\ views[v].path = last'.path
                       /\ views[v].deleted = FALSE
                       /\ <<R, v>> \in DOMAIN links
                       /\ links[<<R, v>>] = TRUE
           IN  /\ last'.code \in {200, 403}
               /\ last'.code = 200 <=> granted ]_vars

\* the waiter was allowed on a path his role has an enabled link to
C7_Witness ==
    /\ last.op = "check_permission"
    /\ last.code = 200
    /\ last.uid = 2
    /\ last.path = "/api/orders"

\* C8: while a user is soft-deleted or has a disabled status, the guard
\* answers Forbidden to every validly signed, unexpired token that names
\* the user, whether or not its row is active.
C8_IneligibleUserForbidden ==
    [][ \A u \in UserIds :
          (GuardAnswers
             /\ last'.token.sig = "valid"
             /\ last'.token.exp >= now
             /\ last'.token.username = users[u].username
             /\ (users[u].deleted
                   \/ (users[u].id_status # NULL
                        /\ StatusName(users[u].id_status)
                              \in {"Inactivo", "Suspendido"})))
          => last'.code = 403 ]_vars

\* a soft-deleted user's active, unexpired token was refused with 403
C8_Witness ==
    /\ last.op = "decode_token"
    /\ last.code = 403
    /\ \E i \in DOMAIN tokens :
          /\ tokens[i].token = last.token
          /\ tokens[i].status_token
          /\ tokens[i].token.exp >= now
          /\ users[tokens[i].id_user].deleted
          /\ users[tokens[i].id_user].username = last.token.username

\* C9: the guard refuses (401) a validly signed token whose expiry is in
\* the past, also when its row is active; and a token refused as expired is
\* refused again when it is presented next.
C9_ExpiredRejected ==
    [][ GuardAnswers =>
          /\ (last'.token.sig = "valid" /\ last'.token.exp < now)
                => last'.code = 401
          /\ (last.op # "none" /\ last.token = last'.token
                 /\ last.token.sig = "valid" /\ last.code = 401
                 /\ last.detail = "Invalid or expired token.")
                => last'.code = 401 ]_vars

\* an expired token whose row is still active was refused
C9_Witness ==
    /\ last.op = "decode_token"
    /\ last.code = 401
    /\ last.token.exp < now
    /\ \E i \in DOMAIN tokens :
          /\ tokens[i].token = last.token
          /\ tokens[i].status_token
          /\ ~users[tokens[i].id_user].deleted

\* C10: a login for a soft-deleted or disabled user is answered Forbidden
\* and neither adds a token row nor invalidates one, at every entry point.
C10_IneligibleLoginForbidden ==
    \A p \in Procs :
        (sess[p].pc = "done" /\ sess[p].pwok /\ ~sess[p].elig)
        => /\ sess[p].resp = 403
           /\ sess[p].row = NULL
           /\ ActiveIds(tokens, sess[p].uid) = sess[p].pre

\* C11: a login naming an existing user with a wrong password is answered
\* with the handler's invalid-credentials error (401 by login_user, 400
\* "Invalid credentials" by login) and leaves the token table as it was.
C11_WrongPasswordRejected ==
    [][ \A p \in Procs :
          (sess[p].pc = "idle" /\ sess'[p].pc = "done"
               /\ sess'[p].uid # NULL /\ ~sess'[p].pwok)
          => /\ sess'[p].resp = IF sess'[p].entry = "auth" THEN 401 ELSE 400
             /\ sess'[p].row = NULL
             /\ tokens' = tokens ]_vars

\* a wrong password was refused for a user who holds an active token, at
\* both entry points
C11_Witness ==
    \E p, q \in Procs :
        /\ sess[p].pc = "done" /\ sess[p].entry = "auth"
        /\ sess[q].pc = "done" /\ sess[q].entry = "login"
        /\ \A r \in {p, q} :
              /\ sess[r].uid # NULL /\ ~sess[r].pwok
              /\ sess[r].pre # {}
              /\ ActiveIds(tokens, sess[r].uid) = sess[r].pre
        /\ sess[p].resp = 401 /\ sess[q].resp = 400

\* C12: for a token that fails authentication, check_permission answers with
\* decode_token's error whatever the path: registered or not, deleted or
\* not, linked to a role or not.
C12_AuthenticationBeforeAuthorization ==
    \A token \in TokenInputs, view_path \in Paths :
        decode_token(token).code # 200
        => check_permission(view_path, token) = decode_token(token)

\* a forged token on an unregistered path, or an expired token on a
\* registered path, was answered with decode_token's error
C12_Witness ==
    /\ last.op = "check_permission"
    /\ last.code \in {401, 403, 404, 400}
    /\ decode_token(last.token).code = last.code
    /\ \/ last.path = "/api/none" /\ last.token.sig = "invalid"
       \/ /\ last.path = "/api/orders" /\ last.token.sig = "valid"
          /\ last.token.exp < now

\* C13: a call to decode_token or check_permission, allowed or denied,
\* leaves the users, tokens, views and role_view_link tables unchanged.
C13_GuardSideEffectFree ==
    [][ GuardAnswers => UNCHANGED <<users, tokens, views, links>> ]_vars

\* the guard refused, with 403, a token whose row is active
C13_Witness ==
    /\ last.op \in {"decode_token", "check_permission"}
    /\ last.code = 403
    /\ \E i \in DOMAIN tokens :
          tokens[i].token = last.token /\ tokens[i].status_token

\* C14: a login with the right password for an existing user who is neither
\* deleted nor disabled succeeds and inserts an active row, owned by the
\* user, holding the returned token; decode_token, given that token right
\* after the login, returns the same user.
C14_LoginGuardRoundTrip ==
    [][ \A p \in Procs :
          (sess[p].pc # "done" /\ sess'[p].pc = "done"
               /\ sess'[p].pwok /\ sess'[p].elig)
          => /\ sess'[p].resp = 200
             /\ sess'[p].row \in DOMAIN tokens'
             /\ tokens'[sess'[p].row] =
                    TokenRow(sess'[p].uid, sess'[p].token, TRUE,
                             sess'[p].token.exp)
             /\ (decode_token(sess[p].token))' =
                    Response(200, sess'[p].uid, "ok") ]_vars

\* C15: when create_role has added a role, every row of the views table has
\* a link row to the new role with enabled = true; and no link row is ever
\* persisted for a role that was not.
C15_NewRoleLinkedToEveryView ==
    [][ /\ \A r \in DOMAIN roles' \ DOMAIN roles :
              \A v \in DOMAIN views :
                  /\ <<r, v>> \in DOMAIN links'
                  /\ links'[<<r, v>>] = TRUE
        /\ \A k \in DOMAIN links' : k[1] \in DOMAIN roles' ]_vars

\* C16: once update_role_permissions has committed a value of enabled for
\* (role R, view V), every check_permission on V's path by an authenticated
\* user whose primary role is R, V not deleted, is allowed exactly when the
\* value committed last is true.
C16_PermissionTableIsTruth ==
    [][ (GuardAnswers /\ last'.op = "check_permission"
             /\ decode_token(last'.token).code = 200)
        => LET R == users[decode_token(last'.token).uid].id_role
           IN  \A v \in ViewIds :
                   (/\ views[v].path = last'.path
                    /\ ~views[v].deleted
                    /\ <<R, v>> \in DOMAIN toggled)
                   => (last'.code = 200 <=> toggled[<<R, v>>]) ]_vars

\* the waiter was denied on /api/orders after the link, enabled at the
\* start, was disabled
C16_Witness ==
    /\ last.op = "check_permission"
    /\ last.code = 403
    /\ last.path = "/api/orders"
    /\ last.uid = 2
    /\ users[2].id_role = 2
    /\ <<2, 2>> \in DOMAIN toggled
    /\ toggled[<<2, 2>>] = FALSE
    /\ SeedLinks[<<2, 2>>] = TRUE

\* C17: once a role is soft-deleted, check_permission denies every path to
\* every user whose primary role it is, enabled link rows notwithstanding.
C17_DeletedRoleRevokesPermissions ==
    [][ (GuardAnswers /\ last'.op = "check_permission"
             /\ decode_token(last'.token).code = 200)
        => LET R == users[decode_token(last'.token).uid].id_role
           IN  (R \in DOMAIN roles /\ roles[R].deleted) => last'.code # 200 ]_vars

\* C18: every failure of token validation in decode_token (bad signature,
\* malformed token, no username in a validly signed token, expired token,
\* no active row for the token of a known, eligible user) is answered 401.
C18_TokenFailuresUnauthorized ==
    [][ GuardAnswers =>
          LET t == last'.token
              u == UserByUsername(t.username)
          IN  (\/ t.sig # "valid"
               \/ t.exp < now
               \/ t.username = NoUsername
               \/ /\ u # NULL
                  /\ ~users[u].deleted /\ ~StatusDisabled(u)
                  /\ ~\E i \in ActiveIds(tokens, u) : tokens[i].token = t)
              => last'.code = 401 ]_vars

\* C19: decode_token answers a token that fails signature verification and
\* a token that fails the expiry check with the same status and detail.
C19_SignatureAndExpiryAlike ==
    \A t1, t2 \in TokenInputs :
        (t1.sig # "valid" /\ t2.sig = "valid" /\ t2.exp < now)
        => /\ decode_token(t1) = decode_token(t2)
           /\ decode_token(t1).code = 401

\* an expired token was refused with the answer a forged token gets
C19_Witness ==
    /\ last.op = "decode_token"
    /\ last.token.sig = "valid"
    /\ last.token.exp < now
    /\ last.code = decode_token(JWT("alice", LateExp, "invalid")).code
    /\ last.detail = decode_token(JWT("alice", LateExp, "invalid")).detail

\* C20: when check_permission denies an authenticated, eligible caller, the
\* answer is 403, never 404 or 401 or anything else.
C20_DenialIsForbidden ==
    [][ (GuardAnswers /\ last'.op = "check_permission"
             /\ decode_token(last'.token).code = 200
             /\ last'.code # 200)
        => last'.code = 403 ]_vars

\* C21: at each entry point a login with an unknown username and a login
\* with a known username and a wrong password get the same answer, 401, and
\* neither inserts a token row.
C21_UniformInvalidCredentials ==
    \A p, q \in Procs :
        (/\ sess[p].pc = "done" /\ sess[q].pc = "done"
         /\ sess[p].entry = sess[q].entry
         /\ sess[p].uid = NULL
         /\ sess[q].uid # NULL /\ ~sess[q].pwok)
        => /\ sess[p].resp = sess[q].resp
           /\ sess[p].resp = 401
           /\ sess[p].row = NULL /\ sess[q].row = NULL

\* C22: verify_password answers false for a stored hash that is empty or is
\* no bcrypt hash; a login against a user with such a hash ends with the
\* handler's invalid-credentials error, not 500, and inserts no token row.
C22_MalformedHashIsNoMatch ==
    [][ /\ \A pw \in Passwords, h \in {EmptyHash, MalformedHash} :
              verify_password(pw, h) = FALSE
        /\ \A p \in Procs :
              (/\ sess[p].pc = "idle" /\ sess'[p].pc = "done"
               /\ sess'[p].uid # NULL
               /\ users[sess'[p].uid].password \in {EmptyHash, MalformedHash})
              => /\ sess'[p].resp = IF sess'[p].entry = "auth" THEN 401 ELSE 400
                 /\ sess'[p].row = NULL
                 /\ tokens' = tokens ]_vars

\* logins against a user whose stored hash is no bcrypt hash were refused
\* at both entry points
C22_Witness ==
    \E p, q \in Procs :
        /\ sess[p].pc = "done" /\ sess[p].entry = "auth" /\ sess[p].resp = 401
        /\ sess[q].pc = "done" /\ sess[q].entry = "login" /\ sess[q].resp = 400
        /\ sess[p].uid = 2 /\ sess[q].uid = 2
        /\ users[2].password = MalformedHash

\* C23: decode_token answers with the error of the first gate that fails,
\* the gates taken in the order: decoding (signature, expiry), user lookup,
\* account eligibility, active row.  A token whose row is inactive and whose
\* user is deleted or disabled gets 403; a token of no user gets 404
\* whatever the token table holds.
C23_GateOrder ==
    [][ (GuardAnswers /\ last'.op = "decode_token"
             /\ last'.token.username # NoUsername)
        => LET t == last'.token
               u == UserByUsername(t.username)
           IN  last'.code =
                 IF t.sig # "valid" \/ t.exp < now THEN 401
                 ELSE IF u = NULL THEN 404
                 ELSE IF users[u].deleted \/ StatusDisabled(u) THEN 403
                 ELSE IF \E i \in ActiveIds(tokens, u) : tokens[i].token = t
                      THEN 200 ELSE 401 ]_vars

\* a token whose row is inactive, of a user who is deleted or disabled, was
\* answered 403
C23_Witness ==
    /\ last.op = "decode_token"
    /\ last.code = 403
    /\ \E i \in DOMAIN tokens :
          /\ tokens[i].token = last.token
          /\ ~tokens[i].status_token
          /\ tokens[i].id_user = UserByUsername(last.token.username)
    /\ ~\E i \in DOMAIN tokens :
          tokens[i].token = last.token /\ tokens[i].status_token

C25_InvalidationPermanent ==
    [][ \A i \in DOMAIN tokens :
          /\ i \in DOMAIN tokens'
          /\ tokens'[i].token = tokens[i].token
          /\ tokens'[i].id_user = tokens[i].id_user
          /\ ~tokens[i].status_token => ~tokens'[i].status_token
          /\ (~\E j \in DOMAIN tokens :
                  tokens[j].token = tokens[i].token /\ tokens[j].status_token)
             => (decode_token(tokens[i].token).code # 200)' ]_vars

\* the invalidated token of a user in good standing, who has since sent a
\* login with the right password, is refused for want of an active row
C25_Witness ==
    \E i \in DOMAIN tokens, p \in Procs :
        /\ ~tokens[i].status_token
        /\ sess[p].pc = "done" /\ sess[p].pwok
        /\ sess[p].uid = tokens[i].id_user
        /\ ~users[tokens[i].id_user].deleted
        /\ ~StatusDisabled(tokens[i].id_user)
        /\ decode_token(tokens[i].token) =
               Response(401, NULL,
                   "Token has been invalidated or not found/active in database.")

\* C26: a token never authenticates as another user.  Whatever users are
\* created and renamed and whatever logins run, when decode_token returns a
\* user for a token, an active row stores that token and its id_user is the
\* returned user's id, and every row storing that token has that id_user.
C26_TokenAuthenticatesOwnerOnly ==
    \A t \in TokenInputs :
        decode_token(t).code = 200 =>
            /\ \E i \in DOMAIN tokens :
                   /\ tokens[i].token = t
                   /\ tokens[i].status_token
                   /\ tokens[i].id_user = decode_token(t).uid
            /\ \A i \in DOMAIN tokens :
                   tokens[i].token = t => tokens[i].id_user = decode_token(t).uid

\* a token's username now names a user other than the row's owner, who is in
\* good standing, and the guard refuses the token for want of a row of that user
C26_Witness ==
    \E t \in TokenInputs, i \in DOMAIN tokens :
        /\ tokens[i].token = t
        /\ tokens[i].status_token
        /\ UserByUsername(t.username) # NULL
        /\ UserByUsername(t.username) # tokens[i].id_user
        /\ ~users[UserByUsername(t.username)].deleted
        /\ ~StatusDisabled(UserByUsername(t.username))
        /\ jwt_decode(t, now).ok
        /\ decode_token(t).code = 401

\* C27: soft_delete_user and restore_deleted_user leave every token row
\* unchanged, and when a deleted user is restored, each unexpired token of
\* theirs that an active row stores is accepted by decode_token right after
\* the restore.
C27_DeleteRestoreKeepsSessions ==
    [][ /\ (\E u \in UserIds : users'[u].deleted # users[u].deleted)
            => tokens' = tokens
        /\ \A u \in UserIds, t \in TokenInputs :
             ( /\ users[u].deleted
               /\ ~users'[u].deleted
               /\ t.username = users[u].username
               /\ jwt_decode(t, now').ok
               /\ \E i \in DOMAIN tokens :
                      /\ tokens[i].token = t
                      /\ tokens[i].id_user = u
                      /\ tokens[i].status_token )
             => (decode_token(t))' = Response(200, u, "ok") ]_vars

\* the token that decode_token last refused for its deleted user is accepted
\* now that the user is restored
C27_Witness ==
    /\ last.op = "decode_token"
    /\ last.code = 403
    /\ UserByUsername(last.token.username) # NULL
    /\ ~users[UserByUsername(last.token.username)].deleted
    /\ decode_token(last.token) =
           Response(200, UserByUsername(last.token.username), "ok")

\* C28: permission follows the role the users table holds now.  For an
\* authenticated caller, check_permission allows a path exactly when the
\* path's view is live and the caller's current id_role has an enabled link
\* to it, whatever role the caller held when the token was issued and
\* whatever roles user_role_link gives the caller besides.
C28_PermissionFollowsCurrentRole ==
    [][ (GuardAnswers /\ last'.op = "check_permission"
             /\ decode_token(last'.token).code = 200)
        => LET u == decode_token(last'.token).uid
               v == ViewByPath(last'.path)
           IN  /\ last'.code = 200
                    <=> (v # NULL /\ EnabledLink(users[u].id_role, v))
               /\ (\A r \in RoleIds :
                      (<<u, r>> \in user_role_link /\ v # NULL
                          /\ ~EnabledLink(users[u].id_role, v))
                      => last'.code # 200) ]_vars

\* alice, moved from Admin to Waiter, was denied /api/users with the token
\* she was issued as an Admin
C28_Witness ==
    /\ last.op = "check_permission"
    /\ last.path = "/api/users"
    /\ last.token = SeedToken("alice", LateExp)
    /\ last.uid = 1
    /\ last.code = 403
    /\ users[1].id_role = 2
    /\ SeedUsers[1].id_role = 1
    /\ EnabledLink(1, 1)

\* C29: link rows are inserted by create_role alone: a step of create_view,
\* restore_deleted_view or update_role_permissions adds none, and the rows a
\* step adds are those of the role it creates, for the views live at the
\* time.  So a role with no link row to a live view (the view was created
\* after the role, or was deleted when the role was created) is never
\* allowed on that view's path.
C29_LinksOnlyFromCreateRole ==
    [][ /\ DOMAIN links \subseteq DOMAIN links'
        /\ \A k \in DOMAIN links' \ DOMAIN links :
              /\ k[1] \notin DOMAIN roles
              /\ k[1] \in DOMAIN roles'
              /\ k[2] \in DOMAIN views
              /\ ~views[k[2]].deleted
        /\ \A t \in TokenInputs, v \in DOMAIN views',
              path \in Paths \cup ViewCreatePaths :
              ( /\ (decode_token(t))'.code = 200
                /\ ~views'[v].deleted
                /\ views'[v].path = path
                /\ \/ v \notin DOMAIN views
                   \/ <<users'[(decode_token(t))'.uid].id_role, v>>
                          \notin DOMAIN links )
              => (check_permission(path, t))'.code = 403 ]_vars

\* the Waiter is refused on the path of a view created after the role, and
\* the role created while /api/old was deleted has no link to it now that it
\* is restored
C29_Witness ==
    /\ \E v \in DOMAIN views \ DOMAIN SeedViews :
          /\ ~views[v].deleted
          /\ \A r \in DOMAIN roles : <<r, v>> \notin DOMAIN links
          /\ check_permission(views[v].path, SeedToken("bob", LateExp)).code = 403
    /\ \E r \in DOMAIN roles \ DOMAIN SeedRoles :
          /\ ~views[4].deleted
          /\ <<r, 4>> \notin DOMAIN links
          /\ <<r, 2>> \in DOMAIN links

\* C30: update_role_permissions is all-or-nothing.  A step that changes an
\* enabled flag, or that records a committed body, is the whole of one body
\* for a role that is not deleted, every entry of which has a link row: the
\* named links take the requested values, no other link changes, and no
\* link row is added.  A body with an entry that has no link row changes
\* nothing, the entries before that one included.
C30_PermissionUpdateAllOrNothing ==
    [][ ((DOMAIN links' = DOMAIN links /\ links' # links) \/ toggled' # toggled)
        => \E role_id \in DOMAIN roles, updates \in PermissionUpdateInputs :
              /\ ~roles[role_id].deleted
              /\ ~MissingLink(role_id, updates)
              /\ DOMAIN links' = DOMAIN links
              /\ \A k \in DOMAIN links :
                    links'[k] =
                        IF k[1] = role_id
                           /\ \E i \in DOMAIN updates : updates[i].id_view = k[2]
                        THEN Requested(role_id, updates)[k]
                        ELSE links[k]
              /\ toggled' = Requested(role_id, updates) @@ toggled ]_vars

\* the two entries of one body are committed for the Waiter, who has both
\* link rows, while for a role created without a link to view 4 the same
\* body has changed nothing: its link to view 2 is as create_role wrote it
C30_Witness ==
    /\ <<2, 2>> \in DOMAIN toggled /\ <<2, 4>> \in DOMAIN toggled
    /\ links[<<2, 2>>] = FALSE /\ links[<<2, 4>>] = TRUE
    /\ \E r \in DOMAIN roles \ DOMAIN SeedRoles :
          /\ ~roles[r].deleted
          /\ MissingLink(r, <<RoleViewUpdateStatus(2, FALSE),
                              RoleViewUpdateStatus(4, TRUE)>>)
          /\ <<r, 2>> \notin DOMAIN toggled
          /\ links[<<r, 2>>] = TRUE

====
